---------------------------- MODULE Spec2Model ----------------------------
(***************************************************************************)
(* Fat/water separation of an in-phase / out-of-phase MR image pair by the *)
(* two-point Dixon technique (src/FW-Suppression.py).                      *)
(*                                                                         *)
(* An image is a record                                                    *)
(*     [h, w, dtype, px]                                                   *)
(* h rows, w columns, px the samples in row-major order.  dtype is         *)
(* "uint8", "uint16" or "float64".  The only float64 images of the program *)
(* are the quotients `<8-bit array> / 2` of dixon_algorithm, so a float64  *)
(* sample is stored as the number of halves it holds (px[k] = 2 * value);  *)
(* every such value is exactly representable as a double.                  *)
(***************************************************************************)
EXTENDS Integers, Sequences, FiniteSets

VARIABLES
    \* --- the build --------------------------------------------------------
    nan_to_uint8,    \* what ndarray.astype(np.uint8) stores for a NaN
    \* --- main() -----------------------------------------------------------
    pc,              \* position of main()
    read_error,      \* errors met by read_dicom_files: <<first, second>>
    read_return,     \* what read_dicom_files returned
    in_phase_image, out_phase_image,
    gaussian_in_phase_image, gaussian_out_phase_image,
    water_image, fat_image,
    gauss_water_image, gauss_fat_image,
    equalized_water_image, equalized_fat_image,
    equalized_gauss_water_image, equalized_gauss_fat_image,
    raised,          \* the exception that left main(), "" if none
    fp_invalid,      \* an IEEE invalid operation (0/0) was signalled
    ran,             \* the stages main() has started, in order
    \* --- direct calls of the functions ------------------------------------
    fn,              \* the function called
    stage,           \* "ready", "returned" or "raised"
    arg,             \* its arguments
    ret              \* its return value (a tuple of images)

main_vars == <<pc, read_error, read_return, in_phase_image, out_phase_image,
               gaussian_in_phase_image, gaussian_out_phase_image,
               water_image, fat_image, gauss_water_image, gauss_fat_image,
               equalized_water_image, equalized_fat_image,
               equalized_gauss_water_image, equalized_gauss_fat_image,
               raised, ran>>

call_vars == <<fn, stage, arg, ret>>

vars == <<nan_to_uint8, main_vars, fp_invalid, call_vars>>

-----------------------------------------------------------------------------
(* Bounds of the model *)

\* raw (DICOM) images have at most MaxPixels samples, each in 0..MaxRaw
MaxPixels == 3
MaxRaw == 2
\* images handed to min_max_normalization directly have samples in 0..MaxLevel
MaxLevel == 4
\* 8-bit images handed to dixon_algorithm directly have at most MaxDixonPixels
MaxDixonPixels == 2
\* run lengths of the large images handed to enhance_images
MidRun == 254
BigRun == 509

-----------------------------------------------------------------------------
(* Sets and sequences *)

Range(s) == {s[k] : k \in DOMAIN s}

Min(S) == CHOOSE m \in S : \A y \in S : m <= y

Max(S) == CHOOSE m \in S : \A y \in S : m >= y

RECURSIVE Pow2(_)
Pow2(n) == IF n = 0 THEN 1 ELSE 2 * Pow2(n - 1)

\* number of binary digits of n >= 0
RECURSIVE BitLength(_)
BitLength(n) == IF n = 0 THEN 0 ELSE 1 + BitLength(n \div 2)

\* num / den (den > 0) to the nearest integer, halves to the even one; \div
\* rounds down and % is never negative, so this holds for negative num too
RoundHalfEven(num, den) ==
    LET q == num \div den
        r == num % den
    IN  IF 2 * r > den \/ (2 * r = den /\ q % 2 = 1) THEN q + 1 ELSE q

-----------------------------------------------------------------------------
(* Images *)

\* The sample at position k of an image is px[k] / unit.  Arrays of an integer
\* type hold whole numbers (unit 1); a float64 array holds doubles, given here
\* in halves (unit 2) unless a division has made the unit finer.
UnitOf(dtype) == IF dtype = "float64" THEN 2 ELSE 1

None == [h |-> 0, w |-> 0, dtype |-> "None", unit |-> 0, px |-> <<>>]

Image(h, w, dtype, px) ==
    [h |-> h, w |-> w, dtype |-> dtype, unit |-> UnitOf(dtype), px |-> px]

Shape(image) == <<image.h, image.w>>

Total(image) == image.h * image.w

\* the shapes of at most n samples
Shapes(n) == {s \in (1..n) \X (1..n) : s[1] * s[2] <= n}

\* every image of a shape in S with samples in V
ImagesOver(S, V, dtype) ==
    UNION {{Image(s[1], s[2], dtype, p) : p \in [1..(s[1] * s[2]) -> V]} : s \in S}

ConstantImage(h, w, dtype, v) == Image(h, w, dtype, [k \in 1..(h * w) |-> v])

\* one row: n1 samples v1, then n2 samples v2, then n3 samples v3
RunImage(dtype, n1, v1, n2, v2, n3, v3) ==
    Image(1, n1 + n2 + n3, dtype,
          [k \in 1..(n1 + n2 + n3) |->
              IF k <= n1 THEN v1 ELSE IF k <= n1 + n2 THEN v2 ELSE v3])

IsConstant(image) == \A k \in DOMAIN image.px : image.px[k] = image.px[1]


-----------------------------------------------------------------------------
(* Double precision arithmetic (IEEE 754 binary64, round to nearest even) *)

\* Natural numbers of any size as sequences of 15-bit limbs, the least
\* significant first and the last one not 0; <<>> is 0.
LimbBits == 15

Limb == 32768

RECURSIVE Trim(_)
Trim(a) == IF a # <<>> /\ a[Len(a)] = 0 THEN Trim(SubSeq(a, 1, Len(a) - 1)) ELSE a

RECURSIVE Big(_)
Big(n) == IF n = 0 THEN <<>> ELSE <<n % Limb>> \o Big(n \div Limb)

\* the value of a number that fits the machine integers
RECURSIVE Small(_)
Small(a) == IF a = <<>> THEN 0 ELSE a[1] + Limb * Small(Tail(a))

LimbAt(a, i) == IF i <= Len(a) THEN a[i] ELSE 0

RECURSIVE BigCmpFrom(_, _, _)
BigCmpFrom(a, b, i) ==
    IF i = 0 THEN 0
    ELSE IF LimbAt(a, i) < LimbAt(b, i) THEN -1
    ELSE IF LimbAt(a, i) > LimbAt(b, i) THEN 1
    ELSE BigCmpFrom(a, b, i - 1)

\* -1, 0 or 1 as a < b, a = b or a > b
BigCmp(a, b) == BigCmpFrom(a, b, Max({Len(a), Len(b)}))

RECURSIVE BigAddFrom(_, _, _, _)
BigAddFrom(a, b, i, carry) ==
    IF i > Len(a) /\ i > Len(b) THEN Big(carry)
    ELSE LET t == LimbAt(a, i) + LimbAt(b, i) + carry
         IN  <<t % Limb>> \o BigAddFrom(a, b, i + 1, t \div Limb)

BigAdd(a, b) == BigAddFrom(a, b, 1, 0)

RECURSIVE BigSubFrom(_, _, _, _)
BigSubFrom(a, b, i, borrow) ==
    IF i > Len(a) THEN <<>>
    ELSE LET t == a[i] - LimbAt(b, i) - borrow
         IN  <<(t + Limb) % Limb>> \o BigSubFrom(a, b, i + 1, IF t < 0 THEN 1 ELSE 0)

\* a - b for a >= b
BigSub(a, b) == Trim(BigSubFrom(a, b, 1, 0))

RECURSIVE BigMulSmallFrom(_, _, _, _)
BigMulSmallFrom(a, s, i, carry) ==
    IF i > Len(a) THEN Big(carry)
    ELSE LET t == a[i] * s + carry
         IN  <<t % Limb>> \o BigMulSmallFrom(a, s, i + 1, t \div Limb)

\* a * s for 0 <= s <= Limb
BigMulSmall(a, s) == Trim(BigMulSmallFrom(a, s, 1, 0))

\* a * Limb^n
LimbShift(a, n) == IF a = <<>> THEN <<>> ELSE [i \in 1..n |-> 0] \o a

RECURSIVE BigMulFrom(_, _, _)
BigMulFrom(a, b, i) ==
    IF i > Len(b) THEN <<>>
    ELSE BigAdd(LimbShift(BigMulSmall(a, b[i]), i - 1), BigMulFrom(a, b, i + 1))

BigMul(a, b) == BigMulFrom(a, b, 1)

\* a * 2^k
BigShl(a, k) == LimbShift(BigMulSmall(a, Pow2(k % LimbBits)), k \div LimbBits)

\* the integer part of a / 2^k
BigShr(a, k) ==
    LET w == k \div LimbBits
        r == k % LimbBits
    IN  IF Len(a) <= w THEN <<>>
        ELSE Trim([i \in 1..(Len(a) - w) |->
                      (a[i + w] \div Pow2(r))
                          + (LimbAt(a, i + w + 1) % Pow2(r)) * Pow2(LimbBits - r)])

\* the number of binary digits of a
BigBitLength(a) ==
    IF a = <<>> THEN 0 ELSE LimbBits * (Len(a) - 1) + BitLength(a[Len(a)])

\* binary digit i of a, the lowest being digit 0
BitAt(a, i) == (LimbAt(a, i \div LimbBits + 1) \div Pow2(i % LimbBits)) % 2

\* One digit of a long division: the integer part of rem / q for rem < q *
\* Limb.  The leading limb of q is at least Limb / 2, so the estimate from the
\* leading limbs is the digit or up to 2 above it.
RECURSIVE DigitFrom(_, _, _)
DigitFrom(rem, q, guess) ==
    IF BigCmp(BigMulSmall(q, guess), rem) > 0 THEN DigitFrom(rem, q, guess - 1) ELSE guess

Digit(rem, q) ==
    LET n == Len(q)
        leading == LimbAt(rem, n + 1) * Limb + LimbAt(rem, n)
    IN  DigitFrom(rem, q, Min({Limb - 1, leading \div q[n]}))

\* long division: st = <<i, quotient, remainder>> when the i lowest limbs of
\* n are still to be taken
RECURSIVE BigDivFrom(_, _, _)
BigDivFrom(n, q, st) ==
    LET Step(r, digit) ==
            BigDivFrom(n, q, <<st[1] - 1, Trim(<<digit>> \o st[2]),
                               BigSub(r, BigMulSmall(q, digit))>>)
        Take(r) == Step(r, Digit(r, q))
    IN  IF st[1] = 0 THEN <<st[2], st[3]>>
        ELSE Take(Trim(<<n[st[1]]>> \o st[3]))

\* <<integer part of n / q, remainder>> for q > 0.  Both are scaled to bring
\* the leading limb of the divisor to Limb / 2 or above; the leading limbs
\* of n, one fewer than the divisor has, are the first remainder.
BigDivMod(n, q) ==
    LET Unscaled(qr, k) == <<qr[1], BigShr(qr[2], k)>>
        From(scaled, divisor, low) ==
            BigDivFrom(scaled, divisor,
                       <<low, <<>>, SubSeq(scaled, low + 1, Len(scaled))>>)
        Divide(scaled, divisor) ==
            From(scaled, divisor, Max({0, Len(scaled) - Len(q) + 1}))
        Scaled(k) == Unscaled(Divide(BigShl(n, k), BigShl(q, k)), k)
    IN  Scaled(LimbBits - BitLength(q[Len(q)]))

\* A double is (-1)^neg * m * 2^e with a significand m of 53 binary digits,
\* or zero (m = 0; the sign of a zero plays no part in lines 50-52).
SignificandBits == 53

DoubleZero == [neg |-> FALSE, m |-> <<>>, e |-> 0]

\* what a division by zero gives: an infinity or a NaN
NotFinite == [neg |-> FALSE, m |-> <<>>, e |-> 1]

\* the double nearest to (n + t) * 2^e for some 0 <= t < 1, which is above 0
\* if inexact is set (then n has more than 53 digits); ties go to the even
\* significand
RoundToDouble(neg, n, e, inexact) ==
    LET \* r: the rounded significand, of 53 digits or 2^53
        Normal(r, k) ==
            IF BigBitLength(r) > SignificandBits
            THEN [neg |-> neg, m |-> BigShr(r, 1), e |-> e + k + 1]
            ELSE [neg |-> neg, m |-> r, e |-> e + k]
        \* q: the leading 53 digits; half: the digit below them; rest: is
        \* anything below that digit?
        Nearest(q, half, rest) ==
            IF half /\ (rest \/ BitAt(q, 0) = 1) THEN BigAdd(q, <<1>>) ELSE q
        \* k: the number of digits that n has beyond 53
        Rounded(k) ==
            IF k <= 0 THEN [neg |-> neg, m |-> BigShl(n, -k), e |-> e + k]
            ELSE Normal(Nearest(BigShr(n, k), BitAt(n, k - 1) = 1,
                                inexact \/ BigShl(BigShr(n, k - 1), k - 1) # n),
                        k)
    IN  IF n = <<>> THEN DoubleZero
        ELSE Rounded(BigBitLength(n) - SignificandBits)

\* the double of an integer of at most 31 binary digits
DoubleOf(n) == RoundToDouble(n < 0, Big(IF n < 0 THEN -n ELSE n), 0, FALSE)

\* x / y in double arithmetic
DoubleDivide(x, y) ==
    LET Quotient(qr, s) ==
            RoundToDouble(x.neg # y.neg, qr[1], x.e - y.e - s, qr[2] # <<>>)
        \* s: the shift that gives the quotient 55 or 56 digits
        Shifted(s) == Quotient(BigDivMod(BigShl(x.m, s), y.m), s)
    IN  IF y.m = <<>> THEN NotFinite
        ELSE IF x.m = <<>> THEN DoubleZero
        ELSE Shifted(SignificandBits + 2 + BigBitLength(y.m) - BigBitLength(x.m))

\* x - y in double arithmetic
DoubleSubtract(x, y) ==
    LET \* a, b: the significands of x and y at the exponent e0; c: a against b
        Difference(a, b, c, e0) ==
            IF x.neg = y.neg /\ c = 0 THEN DoubleZero
            ELSE RoundToDouble(IF x.neg # y.neg \/ c > 0 THEN x.neg ELSE ~x.neg,
                               IF x.neg # y.neg THEN BigAdd(a, b)
                               ELSE IF c > 0 THEN BigSub(a, b) ELSE BigSub(b, a),
                               e0, FALSE)
        Compared(a, b, e0) == Difference(a, b, BigCmp(a, b), e0)
        Aligned(e0) == Compared(BigShl(x.m, x.e - e0), BigShl(y.m, y.e - e0), e0)
    IN  IF y.m = <<>> THEN x
        ELSE IF x.m = <<>> THEN [y EXCEPT !.neg = ~y.neg]
        ELSE Aligned(Min({x.e, y.e}))

\* x * y in double arithmetic
DoubleMultiply(x, y) ==
    IF x.m = <<>> \/ y.m = <<>> THEN DoubleZero
    ELSE RoundToDouble(x.neg # y.neg, BigMul(x.m, y.m), x.e + y.e, FALSE)

\* the integer part of a double 0 <= x < 2^31
DoubleTrunc(x) ==
    IF x.e >= 0 THEN Small(BigShl(x.m, x.e)) ELSE Small(BigShr(x.m, -x.e))

-----------------------------------------------------------------------------
(* min_max_normalization, lines 38-52 *)

\* line 50 divides by maximum_value - minimum_value; on a constant image that
\* is 0 / 0 in every sample: numpy signals "invalid value encountered in
\* divide" (a RuntimeWarning, no exception) and stores NaN.
DividesZeroByZero(image) == Max(Range(image.px)) = Min(Range(image.px))

\* a slip in the target range: 256 levels instead of the top level 255
Interp_to256(num, lo, hi, den) ==
    IF den > 0 THEN <<256 * (num - lo), hi - lo>> ELSE <<256 * (lo - num), lo - hi>>

\* line 51 between the end points, in the double arithmetic of np.interp:
\* slope * (x - xp[0]) + fp[0] with slope = (fp[1] - fp[0]) / (xp[1] - xp[0]),
\* for x = num / den, xp[0] = lo / den and xp[1] = hi / den of line 50
InterpDouble(num, lo, hi, den) ==
    LET Line51(x, xp0, xp1) ==
            DoubleMultiply(DoubleDivide(DoubleOf(255 - 0), DoubleSubtract(xp1, xp0)),
                           DoubleSubtract(x, xp0))
        \* the samples of line 50 by their numerators
        Among(normalized_image) ==
            Line51(normalized_image[num], normalized_image[lo], normalized_image[hi])
    IN  Among([v \in {num, lo, hi} |-> DoubleDivide(DoubleOf(v), DoubleOf(den))])

\* line 51: np.interp(x, (x.min(), x.max()), (0, 255)) for the sample x =
\* num / den of normalized_image, whose smallest sample is lo / den and whose
\* largest is hi / den.  The result is a rational <<p, q>> with the integer
\* part of the double that np.interp returns.  np.interp returns 0 and 255
\* themselves at the two end points.  Between them the exact value is 255 *
\* n / d with n / d = (num - lo) / (hi - lo), and the double differs from it
\* by less than 2^-26, less than the distance 1 / d > 2^-17 of a fraction
\* from the integers: the integer parts can differ only where 255 * n / d is
\* an integer.  Unless line 50 wrapped around (den > 0), xp is (0.0, 1.0),
\* the slope is 255.0 and the double product 255.0 * fl(n / d) is that
\* integer (checked for every 0 < n < d < 2^16 with d | 255 * n); otherwise
\* it is computed.
Interp(num, lo, hi, den) ==
    LET n == IF den > 0 THEN num - lo ELSE lo - num
        d == IF den > 0 THEN hi - lo ELSE lo - hi
    IN  IF den > 0 \/ n = 0 \/ n = d \/ (255 * n) % d # 0
        THEN <<255 * n, d>>
        ELSE <<DoubleTrunc(InterpDouble(num, lo, hi, den)), 1>>

\* line 52: ndarray.astype(np.uint8) of a finite double drops the fraction
\* and keeps the low 8 bits.
AsTypeUint8(num, den) == (num \div den) % 256

\* line 52 for a NaN: the conversion is undefined in C, and numpy's cast gives
\* 0 on the builds it runs on (x86-64: the "integer indefinite" 0x80000000,
\* low byte 0; ARM: the conversion saturates to 0).
NanCastOutcomes == {0}

\* a normalisation that divides by the range but leaves the minimum in
min_max_normalization_keeps_offset(image) ==
    LET d == Max(Range(image.px)) - Min(Range(image.px))
    IN  Image(image.h, image.w, "uint8",
              [k \in DOMAIN image.px |->
                  IF d = 0 THEN nan_to_uint8 ELSE ((255 * image.px[k]) \div d) % 256])

\* a value in the number type of the array: int16 arithmetic wraps around
\* (numpy warns for the scalars of line 50's divisor, not for the array)
WrapTo(dtype, x) ==
    IF dtype = "int16" THEN ((x + 32768) % 65536) - 32768 ELSE x

min_max_normalization(image) ==
    LET minimum_value == Min(Range(image.px))
        maximum_value == Max(Range(image.px))
        \* line 50: normalized_image[k] is num(k) / den, a double; both
        \* differences are taken in the image's own number type
        num(k) == WrapTo(image.dtype, image.px[k] - minimum_value)
        den == WrapTo(image.dtype, maximum_value - minimum_value)
        Nums == {num(k) : k \in DOMAIN image.px}
        \* the numerators of normalized_image.min() and normalized_image.max()
        at_min == IF den > 0 THEN Min(Nums) ELSE Max(Nums)
        at_max == IF den > 0 THEN Max(Nums) ELSE Min(Nums)
        \* line 52 of the rational y
        Cast(y) == AsTypeUint8(y[1], y[2])
    IN  Image(image.h, image.w, "uint8",
              [k \in DOMAIN image.px |->
                  IF den = 0 THEN nan_to_uint8
                  ELSE Cast(Interp(num(k), at_min, at_max, den))])

-----------------------------------------------------------------------------
(* dixon_algorithm, lines 56-69 *)

\* saturate_cast to the sample type of the result
Saturate(dtype, x) ==
    LET top == IF dtype = "uint8" THEN 255 ELSE 65535
    IN  IF dtype = "float64" THEN x
        ELSE IF x < 0 THEN 0 ELSE IF x > top THEN top ELSE x

SaturateUint8(x) == Saturate("uint8", x)

\* cv::checkScalar(sc, <type of a single-channel partner>): may the operand
\* stand for the scalar of an "array op scalar" operation?  A numpy array of
\* shape (4, 1) is a Mat of Size(1, 4).
checkScalar(sc) ==
    \/ sc.h = 1 /\ sc.w = 1
    \/ sc.h = 4 /\ sc.w = 1 /\ sc.dtype = "float64"

\* the ways cv::arithm_op ends in a cv2.error: -209, -215 and -5
ArithmErrors == {"unmatched sizes", "assertion failed", "different types"}

\* How cv::arithm_op reads the operands of cv2.add / cv2.subtract (no dtype
\* argument).  Equal sizes: the types have to be equal too (else error -5).
\* Different sizes: src1 is tried as the scalar first, then src2, else error
\* -209; the operand taken as the scalar has to be CV_64F (CV_Assert, error
\* -215).  main passes 8-bit images only (lines 52, 158-159), for which every
\* difference of shape ends in a cv2.error.
ArithmKind(a, b) ==
    IF Shape(a) = Shape(b)
    THEN IF a.dtype = b.dtype THEN "array op array" ELSE "different types"
    ELSE IF checkScalar(a)
    THEN IF a.dtype = "float64" THEN "scalar op array" ELSE "assertion failed"
    ELSE IF checkScalar(b)
    THEN IF b.dtype = "float64" THEN "array op scalar" ELSE "assertion failed"
    ELSE "unmatched sizes"

\* the operand that gives the result its shape and sample type
ArrayOperand(a, b) == IF ArithmKind(a, b) = "scalar op array" THEN b ELSE a

\* The scalar in the unit of the array: its first element (one channel), and
\* for an array of an integer type converted to an integer before the
\* operation (saturate_cast<int>, i.e. cvRound).
ScalarFor(array, sc) ==
    IF array.dtype = "float64" THEN sc.px[1] ELSE RoundHalfEven(sc.px[1], 2)

\* the two operands at position k of the array operand
Src1At(a, b, k) ==
    IF ArithmKind(a, b) = "scalar op array" THEN ScalarFor(b, a) ELSE a.px[k]

Src2At(a, b, k) ==
    IF ArithmKind(a, b) = "array op scalar" THEN ScalarFor(a, b) ELSE b.px[k]

\* cv2.add(a, b), for ArithmKind(a, b) not in ArithmErrors
cv2_add(a, b) ==
    LET array == ArrayOperand(a, b)
    IN  Image(array.h, array.w, array.dtype,
              [k \in DOMAIN array.px |->
                  Saturate(array.dtype, Src1At(a, b, k) + Src2At(a, b, k))])

\* cv2.subtract(a, b), for ArithmKind(a, b) not in ArithmErrors; with the
\* scalar in front it is scalar - array
cv2_subtract(a, b) ==
    LET array == ArrayOperand(a, b)
    IN  Image(array.h, array.w, array.dtype,
              [k \in DOMAIN array.px |->
                  Saturate(array.dtype, Src1At(a, b, k) - Src2At(a, b, k))])

\* a separation that leaves out the division by 2
HalfOf_whole(image) ==
    Image(image.h, image.w, "float64", [k \in DOMAIN image.px |-> 2 * image.px[k]])

\* `<array> / 2` is a float64 array of the halved samples
HalfOf(image) == [image EXCEPT !.dtype = "float64", !.unit = 2 * image.unit]

\* error is "" when the call returns <<water, fat>>
dixon_algorithm(in_phase, out_phase) ==
    IF ArithmKind(in_phase, out_phase) \in ArithmErrors
    THEN [error |-> "cv2.error", water |-> None, fat |-> None]
    ELSE [error |-> "",
          water |-> HalfOf(cv2_add(in_phase, out_phase)),
          fat   |-> HalfOf(cv2_subtract(in_phase, out_phase))]

\* the value of a sample, in quarters
Quarters(image, k) == (4 \div image.unit) * image.px[k]

-----------------------------------------------------------------------------
(* cv2.GaussianBlur(image, (5, 5), 0), lines 158-159 *)

\* the 5-tap kernel OpenCV uses for sigma <= 0, in sixteenths
GaussianKernel == <<1, 4, 6, 4, 1>>

\* cv::borderInterpolate for BORDER_REFLECT_101 (the default border)
RECURSIVE BorderInterpolate(_, _)
BorderInterpolate(p, len) ==
    IF len = 1 THEN 0
    ELSE IF p < 0 THEN BorderInterpolate(-p, len)
    ELSE IF p >= len THEN BorderInterpolate(2 * len - 2 - p, len)
    ELSE p

\* the sample of row y, column x (both from 0), outside the image by reflection
At(image, y, x) ==
    image.px[BorderInterpolate(y, image.h) * image.w
             + BorderInterpolate(x, image.w) + 1]

\* horizontal pass, in sixteenths
RowSmooth(image, y, x) ==
      GaussianKernel[1] * At(image, y, x - 2) + GaussianKernel[2] * At(image, y, x - 1)
    + GaussianKernel[3] * At(image, y, x)
    + GaussianKernel[4] * At(image, y, x + 1) + GaussianKernel[5] * At(image, y, x + 2)

\* vertical pass, in 256ths
Smooth(image, y, x) ==
      GaussianKernel[1] * RowSmooth(image, y - 2, x)
    + GaussianKernel[2] * RowSmooth(image, y - 1, x)
    + GaussianKernel[3] * RowSmooth(image, y, x)
    + GaussianKernel[4] * RowSmooth(image, y + 1, x)
    + GaussianKernel[5] * RowSmooth(image, y + 2, x)

\* 8-bit images are smoothed in fixed point; the result is rounded half up
GaussianBlur(image) ==
    Image(image.h, image.w, "uint8",
          [k \in DOMAIN image.px |->
              (Smooth(image, (k - 1) \div image.w, (k - 1) % image.w) + 128) \div 256])

-----------------------------------------------------------------------------
(* cv2.equalizeHist, lines 87-88 *)

\* A positive float32 is <<m, e>>, standing for m * 2^e with 2^23 <= m < 2^24.

\* the binary digits of n / d, one more a step, until there are 24 of them
RECURSIVE QuotientBits(_, _, _, _)
QuotientBits(q, r, d, e) ==
    IF q >= Pow2(23) THEN <<q, r, e>>
    ELSE QuotientBits(2 * q + (2 * r) \div d, (2 * r) % d, d, e - 1)

\* the float32 nearest to n / d, for 0 < n < 2^23 and 0 < d < 2^23
Float32Quotient(n, d) ==
    LET t == QuotientBits(n \div d, n % d, d, 0)
        up == 2 * t[2] > d \/ (2 * t[2] = d /\ t[1] % 2 = 1)
    IN  <<IF up THEN t[1] + 1 ELSE t[1], t[3]>>

\* the float32 nearest to sum * f, as <<m, e>> with m < 2^24 (not normalised),
\* for 0 <= sum < 2^11.  The product is formed exactly in two 12-bit halves.
Float32Product(sum, f) ==
    LET mh == f[1] \div 4096
        ml == f[1] % 4096
        lo == (sum * ml) % 4096
        hi == sum * mh + (sum * ml) \div 4096
        bits == IF hi = 0 THEN BitLength(lo) ELSE BitLength(hi) + 12
        k == IF bits > 24 THEN bits - 24 ELSE 0
        q == hi * Pow2(12 - k) + lo \div Pow2(k)
        r == lo % Pow2(k)
        up == 2 * r > Pow2(k) \/ (2 * r = Pow2(k) /\ q % 2 = 1)
    IN  <<IF up THEN q + 1 ELSE q, f[2] + k>>

\* cvRound: the nearest integer, halves to the even one
cvRound(f) ==
    IF f[2] >= 0 THEN f[1] * Pow2(f[2])
    ELSE IF -f[2] > 26 THEN 0
    ELSE RoundHalfEven(f[1], Pow2(-f[2]))

\* saturate_cast<uchar>(float)
saturate_cast_uchar(f) == SaturateUint8(cvRound(f))

\* the number of samples of value v
Hist(src, v) == Cardinality({k \in DOMAIN src.px : src.px[k] = v})

\* a cumulative sum that leaves out the bin of v itself
EqualizeLut_exclusive(src, i, v) ==
    LET scale == Float32Quotient(255, Total(src) - Hist(src, i))
        sum == Cardinality({k \in DOMAIN src.px : i < src.px[k] /\ src.px[k] < v})
    IN  IF v = i THEN 0 ELSE saturate_cast_uchar(Float32Product(sum, scale))

\* the entry of the table cv::equalizeHist builds for the value v, where i is
\* the smallest value of the image
EqualizeLut(src, i, v) ==
    LET total == Total(src)
        scale == Float32Quotient(255, total - Hist(src, i))
        sum == Cardinality({k \in DOMAIN src.px : i < src.px[k] /\ src.px[k] <= v})
    IN  IF v = i THEN 0 ELSE saturate_cast_uchar(Float32Product(sum, scale))

equalizeHist(src) ==
    LET i == Min(Range(src.px))
        lut == {<<v, EqualizeLut(src, i, v)>> : v \in Range(src.px)}
        Lookup(v) == (CHOOSE p \in lut : p[1] = v)[2]
    IN  IF Hist(src, i) = Total(src)
        THEN Image(src.h, src.w, "uint8", [k \in DOMAIN src.px |-> i])
        ELSE Image(src.h, src.w, "uint8", [k \in DOMAIN src.px |-> Lookup(src.px[k])])

-----------------------------------------------------------------------------
(* enhance_images, lines 73-90 *)

enhance_images(water, fat) ==
    LET normalized_water_image == min_max_normalization(water)
        normalized_fat_image == min_max_normalization(fat)
    IN  <<equalizeHist(normalized_water_image), equalizeHist(normalized_fat_image)>>

-----------------------------------------------------------------------------
(* read_dicom_files, lines 8-34 *)

\* what pydicom.dcmread(...) and .pixel_array can raise: a missing file, a file
\* that is no DICOM file, a file that may not be read, a data set without
\* pixel data
ReadFailures == {"FileNotFoundError", "InvalidDicomError", "PermissionError", "AttributeError"}

\* the two `except` clauses, lines 23 and 30
Caught == {"FileNotFoundError", "InvalidDicomError"}

RawImages == ImagesOver(Shapes(MaxPixels), 0..MaxRaw, "uint16")

\* e1, e2: the failure of reading each file ("" for none); a1, a2: the pixel
\* arrays of the files.  The second file is read only after the first.
read_dicom_files(e1, a1, e2, a2) ==
    IF e1 \in Caught THEN [raised |-> "", value |-> <<None, None>>]
    ELSE IF e1 # "" THEN [raised |-> e1, value |-> <<>>]
    ELSE IF e2 \in Caught THEN [raised |-> "", value |-> <<None, None>>]
    ELSE IF e2 # "" THEN [raised |-> e2, value |-> <<>>]
    ELSE [raised |-> "", value |-> <<a1, a2>>]

-----------------------------------------------------------------------------
(* display_images, lines 93-140 *)

\* a 2-D array is a single-channel image
Channels(image) == 1

\* cv2.cvtColor(image, cv2.COLOR_BGR2RGB) takes 3 or 4 channels, lines 105-110
cvtColorRaises(image) == Channels(image) \notin {3, 4}

-----------------------------------------------------------------------------
(* main, lines 143-167 *)

NoCall == fn = "" /\ stage = "idle" /\ arg = <<>> /\ ret = <<>>

NotStarted ==
    /\ pc = "start"
    /\ read_error = <<"", "">>
    /\ read_return = <<>>
    /\ in_phase_image = None /\ out_phase_image = None
    /\ gaussian_in_phase_image = None /\ gaussian_out_phase_image = None
    /\ water_image = None /\ fat_image = None
    /\ gauss_water_image = None /\ gauss_fat_image = None
    /\ equalized_water_image = None /\ equalized_fat_image = None
    /\ equalized_gauss_water_image = None /\ equalized_gauss_fat_image = None
    /\ raised = ""
    /\ ran = <<>>

Init ==
    /\ nan_to_uint8 \in NanCastOutcomes
    /\ fp_invalid = FALSE
    /\ NotStarted
    /\ NoCall

\* lines 151-153.  A pixel array that is never read, or that is dropped because
\* the other file fails, has no effect: it is fixed then, so that one failure
\* is one step.
ReadDicomFiles ==
    /\ pc = "start"
    /\ \E e1 \in {""} \cup ReadFailures, a1 \in RawImages,
          e2 \in {""} \cup ReadFailures, a2 \in RawImages :
          LET r == read_dicom_files(e1, a1, e2, a2) IN
          /\ e1 # "" => e2 = "" /\ a2 = a1
          /\ e1 # "" \/ e2 # "" => a1 = ConstantImage(1, 1, "uint16", 0)
          /\ read_error' = <<e1, e2>>
          /\ read_return' = r.value
          /\ raised' = r.raised
          /\ IF r.raised # "" THEN
                 /\ pc' = "raised"
                 /\ UNCHANGED <<in_phase_image, out_phase_image>>
             ELSE
                 /\ in_phase_image' = r.value[1]
                 /\ out_phase_image' = r.value[2]
                 /\ pc' = IF r.value[1] = None \/ r.value[2] = None
                          THEN "done" ELSE "normalize"
    /\ UNCHANGED <<nan_to_uint8, fp_invalid, call_vars, ran,
                   gaussian_in_phase_image, gaussian_out_phase_image,
                   water_image, fat_image, gauss_water_image, gauss_fat_image,
                   equalized_water_image, equalized_fat_image,
                   equalized_gauss_water_image, equalized_gauss_fat_image>>

\* lines 155-156
Normalize ==
    /\ pc = "normalize"
    /\ in_phase_image' = min_max_normalization(in_phase_image)
    /\ out_phase_image' = min_max_normalization(out_phase_image)
    /\ fp_invalid' = (fp_invalid \/ DividesZeroByZero(in_phase_image)
                                 \/ DividesZeroByZero(out_phase_image))
    /\ ran' = Append(ran, "normalization")
    /\ pc' = "smooth"
    /\ UNCHANGED <<nan_to_uint8, call_vars, read_error, read_return, raised,
                   gaussian_in_phase_image, gaussian_out_phase_image,
                   water_image, fat_image, gauss_water_image, gauss_fat_image,
                   equalized_water_image, equalized_fat_image,
                   equalized_gauss_water_image, equalized_gauss_fat_image>>

\* lines 158-159
Smooth5x5 ==
    /\ pc = "smooth"
    /\ gaussian_in_phase_image' = GaussianBlur(in_phase_image)
    /\ gaussian_out_phase_image' = GaussianBlur(out_phase_image)
    /\ ran' = Append(ran, "smoothing")
    /\ pc' = "separate"
    /\ UNCHANGED <<nan_to_uint8, fp_invalid, call_vars, read_error, read_return,
                   raised, in_phase_image, out_phase_image,
                   water_image, fat_image, gauss_water_image, gauss_fat_image,
                   equalized_water_image, equalized_fat_image,
                   equalized_gauss_water_image, equalized_gauss_fat_image>>

\* line 161
Separate ==
    /\ pc = "separate"
    /\ LET r == dixon_algorithm(in_phase_image, out_phase_image) IN
          /\ raised' = r.error
          /\ water_image' = r.water
          /\ fat_image' = r.fat
          /\ pc' = IF r.error # "" THEN "raised" ELSE "separate_gauss"
    /\ ran' = Append(ran, "separation")
    /\ UNCHANGED <<nan_to_uint8, fp_invalid, call_vars, read_error, read_return,
                   in_phase_image, out_phase_image,
                   gaussian_in_phase_image, gaussian_out_phase_image,
                   gauss_water_image, gauss_fat_image,
                   equalized_water_image, equalized_fat_image,
                   equalized_gauss_water_image, equalized_gauss_fat_image>>

\* line 162
SeparateGauss ==
    /\ pc = "separate_gauss"
    /\ LET r == dixon_algorithm(gaussian_in_phase_image, gaussian_out_phase_image) IN
          /\ raised' = r.error
          /\ gauss_water_image' = r.water
          /\ gauss_fat_image' = r.fat
          /\ pc' = IF r.error # "" THEN "raised" ELSE "enhance"
    /\ ran' = Append(ran, "separation")
    /\ UNCHANGED <<nan_to_uint8, fp_invalid, call_vars, read_error, read_return,
                   in_phase_image, out_phase_image,
                   gaussian_in_phase_image, gaussian_out_phase_image,
                   water_image, fat_image,
                   equalized_water_image, equalized_fat_image,
                   equalized_gauss_water_image, equalized_gauss_fat_image>>

\* line 164
Enhance ==
    /\ pc = "enhance"
    /\ LET r == enhance_images(water_image, fat_image) IN
          /\ equalized_water_image' = r[1]
          /\ equalized_fat_image' = r[2]
    /\ fp_invalid' = (fp_invalid \/ DividesZeroByZero(water_image)
                                 \/ DividesZeroByZero(fat_image))
    /\ ran' = Append(ran, "enhancement")
    /\ pc' = "enhance_gauss"
    /\ UNCHANGED <<nan_to_uint8, call_vars, read_error, read_return, raised,
                   in_phase_image, out_phase_image,
                   gaussian_in_phase_image, gaussian_out_phase_image,
                   water_image, fat_image, gauss_water_image, gauss_fat_image,
                   equalized_gauss_water_image, equalized_gauss_fat_image>>

\* line 165
EnhanceGauss ==
    /\ pc = "enhance_gauss"
    /\ LET r == enhance_images(gauss_water_image, gauss_fat_image) IN
          /\ equalized_gauss_water_image' = r[1]
          /\ equalized_gauss_fat_image' = r[2]
    /\ fp_invalid' = (fp_invalid \/ DividesZeroByZero(gauss_water_image)
                                 \/ DividesZeroByZero(gauss_fat_image))
    /\ ran' = Append(ran, "enhancement")
    /\ pc' = "display"
    /\ UNCHANGED <<nan_to_uint8, call_vars, read_error, read_return, raised,
                   in_phase_image, out_phase_image,
                   gaussian_in_phase_image, gaussian_out_phase_image,
                   water_image, fat_image, gauss_water_image, gauss_fat_image,
                   equalized_water_image, equalized_fat_image>>

\* line 167: display_images stops at its first cvtColor, line 105
DisplayImages ==
    /\ pc = "display"
    /\ ran' = Append(ran, "display")
    /\ IF cvtColorRaises(in_phase_image)
       THEN pc' = "raised" /\ raised' = "cv2.error"
       ELSE pc' = "done" /\ raised' = raised
    /\ UNCHANGED <<nan_to_uint8, fp_invalid, call_vars, read_error, read_return,
                   in_phase_image, out_phase_image,
                   gaussian_in_phase_image, gaussian_out_phase_image,
                   water_image, fat_image, gauss_water_image, gauss_fat_image,
                   equalized_water_image, equalized_fat_image,
                   equalized_gauss_water_image, equalized_gauss_fat_image>>

Next ==
    \/ ReadDicomFiles
    \/ Normalize
    \/ Smooth5x5
    \/ Separate
    \/ SeparateGauss
    \/ Enhance
    \/ EnhanceGauss
    \/ DisplayImages

Spec == Init /\ [][Next]_vars

-----------------------------------------------------------------------------
(* The functions called directly, on arrays that are already loaded *)

\* samples of signed 16-bit images whose range exceeds 32767; with the
\* second set line 51 yields 113.99999999999999 where the exact value is 114
Levels16 == {{-20000, 0, 20000}, {-25922, -6010, 14986}}

\* arguments of min_max_normalization: integer arrays and float64 arrays
NormalizeInputs ==
    ImagesOver(Shapes(MaxPixels), 0..MaxLevel, "uint16")
        \cup ImagesOver(Shapes(MaxPixels), 0..MaxLevel, "float64")
        \cup UNION {ImagesOver(Shapes(MaxPixels), L, "int16") : L \in Levels16}

\* arguments of dixon_algorithm: 8-bit arrays, among them the constant arrays
\* of the 4x4 example and of the 10x10 / 10x12 example, and float64 arrays
Levels8 == {0, 50, 100, 255}

ExampleShapes == {<<4, 4>>, <<10, 10>>, <<10, 12>>}

\* float64 arrays of the values 0, 50 and 50.5, and a column of four
FloatOperands ==
    ImagesOver({<<1, 1>>, <<1, 2>>}, {0, 100, 101}, "float64")
        \cup {Image(4, 1, "float64", <<100, 0, 0, 0>>)}

DixonInputs ==
    ImagesOver(Shapes(MaxDixonPixels), Levels8, "uint8")
        \cup {ConstantImage(s[1], s[2], "uint8", v) : s \in ExampleShapes, v \in {50, 100}}
        \cup FloatOperands

\* arguments of enhance_images: rows of three runs, of the values 0, 0.5 and 127.5
RunLengths == {1, MidRun, BigRun}

EnhanceInputs ==
    {RunImage("float64", n1, 0, n2, 1, n3, 255) : n1 \in RunLengths, n2 \in RunLengths, n3 \in RunLengths}

Calls ==
    {[fn |-> "min_max_normalization", arg |-> <<a>>] : a \in NormalizeInputs}
        \cup {[fn |-> "dixon_algorithm", arg |-> <<a, b>>] : a \in DixonInputs, b \in DixonInputs}
        \cup {[fn |-> "enhance_images", arg |-> <<a, b>>] : a \in EnhanceInputs, b \in EnhanceInputs}

InitCall ==
    /\ nan_to_uint8 \in NanCastOutcomes
    /\ fp_invalid = FALSE
    /\ NotStarted
    /\ \E c \in Calls : fn = c.fn /\ arg = c.arg
    /\ stage = "ready"
    /\ ret = <<>>

\* lines 38-52
CallMinMaxNormalization ==
    /\ fn = "min_max_normalization" /\ stage = "ready"
    /\ ret' = <<min_max_normalization(arg[1])>>
    /\ fp_invalid' = (fp_invalid \/ DividesZeroByZero(arg[1]))
    /\ stage' = "returned"
    /\ UNCHANGED <<nan_to_uint8, main_vars, fn, arg>>

\* lines 56-69
CallDixonAlgorithm ==
    /\ fn = "dixon_algorithm" /\ stage = "ready"
    /\ LET r == dixon_algorithm(arg[1], arg[2]) IN
          IF r.error # ""
          THEN stage' = "raised" /\ ret' = <<>>
          ELSE stage' = "returned" /\ ret' = <<r.water, r.fat>>
    /\ UNCHANGED <<nan_to_uint8, main_vars, fp_invalid, fn, arg>>

\* lines 161 and 164: the separated images are handed to enhance_images
PassToEnhance ==
    /\ fn = "dixon_algorithm" /\ stage = "returned"
    /\ fn' = "enhance_images"
    /\ arg' = ret
    /\ ret' = <<>>
    /\ stage' = "ready"
    /\ UNCHANGED <<nan_to_uint8, main_vars, fp_invalid>>

\* lines 73-90
CallEnhanceImages ==
    /\ fn = "enhance_images" /\ stage = "ready"
    /\ ret' = enhance_images(arg[1], arg[2])
    /\ fp_invalid' = (fp_invalid \/ DividesZeroByZero(arg[1]) \/ DividesZeroByZero(arg[2]))
    /\ stage' = "returned"
    /\ UNCHANGED <<nan_to_uint8, main_vars, fn, arg>>

NextCall ==
    \/ CallMinMaxNormalization
    \/ CallDixonAlgorithm
    \/ PassToEnhance
    \/ CallEnhanceImages

SpecCall == InitCall /\ [][NextCall]_vars

-----------------------------------------------------------------------------
(* Properties *)

Returned(f) == fn = f /\ stage = "returned"

Finished(f) == fn = f /\ stage \in {"returned", "raised"}

SameShape(a, b) == a.h = b.h /\ a.w = b.w

\* a call of dixon_algorithm on two 8-bit images of one shape has returned
Returned8Bit ==
    /\ Returned("dixon_algorithm")
    /\ arg[1].dtype = "uint8" /\ arg[2].dtype = "uint8"
    /\ SameShape(arg[1], arg[2])

AllZero(image) == \A k \in DOMAIN image.px : image.px[k] = 0

\* the pairs <<sample of x, sample of e at the same position>>
SamplePairs(x, e) == {<<x.px[k], e.px[k]>> : k \in DOMAIN x.px}

\* the number of samples above the smallest one
AboveMin(x) == Total(x) - Hist(x, Min(Range(x.px)))

\* C1: dixon_algorithm on two same-shaped 8-bit images gives, at every
\* position, water = (in_phase + out_phase) / 2 and fat = (in_phase -
\* out_phase) / 2 with no clamping: fat is negative where out_phase >
\* in_phase, water exceeds 127.5 where the sum exceeds 255.
C1_DixonUnclamped ==
    Returned8Bit =>
        \A k \in DOMAIN arg[1].px :
            /\ Quarters(ret[1], k) = 2 * (arg[1].px[k] + arg[2].px[k])
            /\ Quarters(ret[2], k) = 2 * (arg[1].px[k] - arg[2].px[k])

\* C2: min_max_normalization of a constant image returns an all-zero image
\* of the same shape, and neither fails nor produces an arithmetic fault.
C2_ConstantImageAllZero ==
    (Finished("min_max_normalization") /\ IsConstant(arg[1])) =>
        /\ stage = "returned"
        /\ SameShape(ret[1], arg[1])
        /\ AllZero(ret[1])
        /\ ~fp_invalid

\* C3: dixon_algorithm on images of different dimensions (10x10 and 10x12,
\* say) fails with an error, before any pixel arithmetic; no water or fat
\* image is produced.
C3_DimensionMismatchFails ==
    (Finished("dixon_algorithm") /\ ~SameShape(arg[1], arg[2])) =>
        stage = "raised" /\ ret = <<>>

\* C4: min_max_normalization maps every sample v of a non-constant
\* image to (v - min) / (max - min) * 255 rounded to the nearest integer.
C4_RoundedToNearest ==
    (Returned("min_max_normalization") /\ ~IsConstant(arg[1])) =>
        LET lo == Min(Range(arg[1].px))
            d == Max(Range(arg[1].px)) - lo
        IN  \A k \in DOMAIN arg[1].px :
                LET n == 255 * (arg[1].px[k] - lo)
                    y == ret[1].px[k] * d
                IN  2 * (y - n) <= d /\ 2 * (n - y) <= d

\* C5: for same-shaped 8-bit images a, b as the pipeline passes them to
\* dixon_algorithm, water + fat = a and water - fat = b at every position.
C5_RoundTrip ==
    Returned8Bit =>
        \A k \in DOMAIN arg[1].px :
            /\ Quarters(ret[1], k) + Quarters(ret[2], k) = Quarters(arg[1], k)
            /\ Quarters(ret[1], k) - Quarters(ret[2], k) = Quarters(arg[2], k)

\* C6: the output of min_max_normalization on a non-constant image has
\* smallest sample 0, largest sample 255 and every sample in 0..255.
C6_OutputRange ==
    (Returned("min_max_normalization") /\ ~IsConstant(arg[1])) =>
        /\ Min(Range(ret[1].px)) = 0
        /\ Max(Range(ret[1].px)) = 255
        /\ \A k \in DOMAIN ret[1].px : ret[1].px[k] \in 0..255

\* C6 witness: a normalised image of three different values
C6_Witness ==
    /\ Returned("min_max_normalization")
    /\ Cardinality(Range(arg[1].px)) = 3
    /\ Cardinality(Range(ret[1].px)) = 3

\* C7: min_max_normalization is idempotent on non-constant images:
\* normalising the normalised image changes no sample.
C7_Idempotent ==
    (Returned("min_max_normalization") /\ ~IsConstant(arg[1])) =>
        min_max_normalization(ret[1]) = ret[1]

\* C7 witness: a normalised image that differs from the image it came from
C7_Witness ==
    /\ Returned("min_max_normalization")
    /\ Cardinality(Range(ret[1].px)) = 3
    /\ ret[1].px # arg[1].px

\* C8 as stated: in enhance_images, for the image x that is equalised,
\* x[i] < x[j] implies enhanced[i] <= enhanced[j], and enhanced[i] =
\* enhanced[j] only when x[i] = x[j].
C8_StrictRankOrder ==
    Returned("enhance_images") =>
        \A m \in {1, 2} :
            \A p, q \in SamplePairs(min_max_normalization(arg[m]), ret[m]) :
                /\ p[1] < q[1] => p[2] <= q[2]
                /\ p[2] = q[2] => p[1] = q[1]

\* C8 as amended: in enhance_images, for the image x that is equalised,
\* x[i] < x[j] implies enhanced[i] <= enhanced[j]; different intensities can
\* get the same enhanced value, but only in an image with more than 255
\* samples above its darkest one.
C8_RankOrder ==
    Returned("enhance_images") =>
        \A m \in {1, 2} :
            LET x == min_max_normalization(arg[m]) IN
            \A p, q \in SamplePairs(x, ret[m]) :
                /\ p[1] < q[1] => p[2] <= q[2]
                /\ (p[2] = q[2] /\ p[1] # q[1]) => AboveMin(x) > 255

\* C8 witness: three intensities, no more than 255 samples above the darkest,
\* equalised to three values
C8_Witness ==
    /\ Returned("enhance_images")
    /\ LET x == min_max_normalization(arg[1]) IN
          /\ Cardinality(Range(x.px)) = 3
          /\ AboveMin(x) = 255
          /\ Cardinality(Range(ret[1].px)) = 3

\* C9: on a constant in-phase image of 100 and a constant out-phase image of
\* 50, dixon_algorithm gives water = 75 and fat = 25 everywhere, and
\* enhance_images of that result (of any constant pair) completes and returns
\* two all-zero images of the same shape.
C9_ConstantExample ==
    /\ (/\ Returned("dixon_algorithm")
        /\ arg[1] = ConstantImage(arg[1].h, arg[1].w, "uint8", 100)
        /\ arg[2] = ConstantImage(arg[1].h, arg[1].w, "uint8", 50))
           => /\ ret[1] = ConstantImage(arg[1].h, arg[1].w, "float64", 150)
              /\ ret[2] = ConstantImage(arg[1].h, arg[1].w, "float64", 50)
    /\ (Finished("enhance_images") /\ IsConstant(arg[1]) /\ IsConstant(arg[2]))
           => /\ stage = "returned"
              /\ SameShape(ret[1], arg[1]) /\ AllZero(ret[1])
              /\ SameShape(ret[2], arg[2]) /\ AllZero(ret[2])

\* C9 witness: enhance_images has returned for the water and fat images of the
\* 4x4 example
C9_Witness ==
    /\ Returned("enhance_images")
    /\ arg[1] = ConstantImage(4, 4, "float64", 150)
    /\ arg[2] = ConstantImage(4, 4, "float64", 50)
    /\ AllZero(ret[1]) /\ AllZero(ret[2])

\* the stages of main() after the files are read, in their order
Stages == <<"normalization", "smoothing", "separation", "separation",
            "enhancement", "enhancement", "display">>

\* C10: an error while reading either file makes read_dicom_files return
\* (None, None) and main end without running any later stage; the later
\* stages run, in order, only after both files were read.
C10_ReadErrorsEndMain ==
    /\ read_error # <<"", "">> =>
           /\ read_return = <<None, None>>
           /\ pc = "done"
           /\ ran = <<>>
    /\ ran # <<>> =>
           /\ read_error = <<"", "">>
           /\ read_return # <<None, None>>
           /\ Len(ran) <= Len(Stages)
           /\ ran = SubSeq(Stages, 1, Len(ran))

=============================================================================
